---- MODULE Spec2Model ----
(***************************************************************************)
(* gromacs_copilot/protocols/base.py: BaseProtocol.                        *)
(*                                                                         *)
(* The process is modelled with its filesystem (directories and files),   *)
(* its working directory, the protocol instances constructed so far and   *)
(* the record of the last call.  A text (a Python str, a file's content)  *)
(* is a sequence of one-character strings, a path is the sequence of its  *)
(* components below the root, and a Python dict is the sequence of its    *)
(* <<key, value>> pairs in insertion order.                                *)
(***************************************************************************)
EXTENDS Naturals, Sequences, FiniteSets, TLC

VARIABLES
    dirs,                \* the directories that exist (absolute paths)
    files,               \* the files that exist: absolute path -> content
    cwd,                 \* the process working directory (os.getcwd())
    protocols,           \* the instances constructed, oldest first
    DEFAULT_MDP_PARAMS,  \* gromacs_copilot.config.DEFAULT_MDP_PARAMS (a module-level dict)
    last,                \* the last call: operation, arguments, outcome, state before it
    calls                \* number of calls made

vars == <<dirs, files, cwd, protocols, DEFAULT_MDP_PARAMS, last, calls>>

----------------------------------------------------------------------------
(* Bounds of the model. *)

MaxCalls == 4
MaxMdpCalls == 3
MaxInstances == 2
MaxDepth == 3

----------------------------------------------------------------------------
(* Python values and dicts. *)

PyStr(t) == [type |-> "str", text |-> t]
PyInt(n) == [type |-> "int", int |-> n]

Digits == <<"0", "1", "2", "3", "4", "5", "6", "7", "8", "9">>

RECURSIVE Decimal(_)
Decimal(n) == IF n < 10 THEN <<Digits[n + 1]>>
              ELSE Decimal(n \div 10) \o <<Digits[(n % 10) + 1]>>

\* str(value), as the f-string's {value} renders it
Str(value) == IF value.type = "str" THEN value.text ELSE Decimal(value.int)

DictKeys(d) == {d[i][1] : i \in DOMAIN d}
DictGet(d, k) == d[CHOOSE i \in DOMAIN d : d[i][1] = k][2]

\* d[k] = v: an existing key keeps its position, a new key is appended
DictSet(d, k, v) ==
    IF k \in DictKeys(d)
    THEN [i \in DOMAIN d |-> IF d[i][1] = k THEN <<k, v>> ELSE d[i]]
    ELSE Append(d, <<k, v>>)

RECURSIVE DictUpdate(_, _)
DictUpdate(d, u) ==
    IF u = <<>> THEN d
    ELSE DictUpdate(DictSet(d, Head(u)[1], Head(u)[2]), Tail(u))

\* Optional[Dict]: None, or a dict
None == [none |-> TRUE]
Dict(items) == [none |-> FALSE, items |-> items]
\* `if params:` is false for None and for the empty dict
Truthy(params) == ~params.none /\ params.items # <<>>

----------------------------------------------------------------------------
(* Collaborators that base.py imports. *)

SETUP == "SETUP"
SimulationStage ==
    <<"SETUP", "ENERGY_MINIMIZATION", "NVT_EQUILIBRATION", "NPT_EQUILIBRATION",
      "PRODUCTION">>
StageMembers == {SimulationStage[i] : i \in DOMAIN SimulationStage}

ions == <<"i", "o", "n", "s">>
em == <<"e", "m">>
nvt == <<"n", "v", "t">>
npt == <<"n", "p", "t">>
md == <<"m", "d">>
MDP_TYPES == <<ions, em, nvt, npt, md>>
MdpTypeSet == {MDP_TYPES[i] : i \in DOMAIN MDP_TYPES}

kIntegrator == <<"i", "n", "t", "e", "g", "r", "a", "t", "o", "r">>
kNsteps == <<"n", "s", "t", "e", "p", "s">>
kTcoupl == <<"t", "c", "o", "u", "p", "l">>
kPcoupl == <<"p", "c", "o", "u", "p", "l">>
kNstlist == <<"n", "s", "t", "l", "i", "s", "t">>
vSteep == <<"s", "t", "e", "e", "p">>
vMd == <<"m", "d">>
vVrescale == <<"V", "-", "r", "e", "s", "c", "a", "l", "e">>
vCrescale == <<"C", "-", "r", "e", "s", "c", "a", "l", "e">>

InitialMdpParams ==
    [t \in MdpTypeSet |->
        CASE t = ions -> <<<<kIntegrator, PyStr(vSteep)>>, <<kNsteps, PyInt(50000)>>>>
          [] t = em   -> <<<<kIntegrator, PyStr(vSteep)>>, <<kNstlist, PyInt(1)>>>>
          [] t = nvt  -> <<<<kIntegrator, PyStr(vMd)>>, <<kTcoupl, PyStr(vVrescale)>>>>
          [] t = npt  -> <<<<kIntegrator, PyStr(vMd)>>, <<kPcoupl, PyStr(vCrescale)>>>>
          [] t = md   -> <<<<kIntegrator, PyStr(vMd)>>, <<kNsteps, PyInt(500000)>>>>]

----------------------------------------------------------------------------
(* Paths: os.path.abspath. *)

RECURSIVE SplitOn(_, _)
\* s.split(sep): the segments between the separators
SplitOn(s, sep) ==
    IF \A i \in DOMAIN s : s[i] # sep THEN <<s>>
    ELSE LET k == CHOOSE i \in DOMAIN s : s[i] = sep /\ \A j \in 1..(i - 1) : s[j] # sep
         IN  <<SubSeq(s, 1, k - 1)>> \o SplitOn(SubSeq(s, k + 1, Len(s)), sep)

Dot == <<".">>
DotDot == <<".", ".">>

RECURSIVE NormComps(_, _)
\* os.path.normpath on an absolute path: "" and "." are dropped, ".." pops
NormComps(done, rest) ==
    IF rest = <<>> THEN done
    ELSE LET c == Head(rest)
         IN  IF c = <<>> \/ c = Dot THEN NormComps(done, Tail(rest))
             ELSE IF c = DotDot
                  THEN NormComps(IF done = <<>> THEN done
                                 ELSE SubSeq(done, 1, Len(done) - 1), Tail(rest))
                  ELSE NormComps(Append(done, c), Tail(rest))

IsAbs(path) == path # <<>> /\ path[1] = "/"

AbsPath(dir, path) ==
    IF IsAbs(path) THEN NormComps(<<>>, SplitOn(path, "/"))
    ELSE NormComps(dir, SplitOn(path, "/"))

Exists(p) == p \in dirs \/ p \in DOMAIN files

Prefixes(p) == [i \in 1..Len(p) |-> SubSeq(p, 1, i)]

----------------------------------------------------------------------------
(* create_mdp_file: the file's text. *)

Width == 20

Spaces(n) == [i \in 1..n |-> " "]

\* f"{key:<20}": left-justified in a field of Width, never truncated
Ljust(key) == IF Len(key) >= Width THEN key ELSE key \o Spaces(Width - Len(key))

Assign == <<" ", "=", " ">>

\* f"{key:<20} = {value}\n"
MdpLine(key, value) == Ljust(key) \o Assign \o Str(value) \o <<"\n">>

HeaderTail ==
    <<".", "m", "d", "p", " ", "-", " ", "G", "e", "n", "e", "r", "a", "t", "e", "d",
      " ", "b", "y", " ", "G", "R", "O", "M", "A", "C", "S", " ", "C", "o", "p", "i",
      "l", "o", "t", "\n">>

\* f"; {mdp_type}.mdp - Generated by GROMACS Copilot\n"
MdpHeader(mdp_type) == <<";", " ">> \o mdp_type \o HeaderTail

RECURSIVE MdpLines(_)
MdpLines(mdp_params) ==
    IF mdp_params = <<>> THEN <<>>
    ELSE MdpLine(Head(mdp_params)[1], Head(mdp_params)[2]) \o MdpLines(Tail(mdp_params))

MdpContent(mdp_type, mdp_params) == MdpHeader(mdp_type) \o MdpLines(mdp_params)

\* a merge in which the defaults win over the caller's values
EffectiveParamsDefaultsWin(defaults, params) ==
    IF Truthy(params) THEN DictUpdate(params.items, defaults) ELSE defaults

\* DEFAULT_MDP_PARAMS[mdp_type].copy(), then update(params) when params is truthy
EffectiveParams(defaults, params) ==
    IF Truthy(params) THEN DictUpdate(defaults, params.items) ELSE defaults

\* update() acting on the stored dict itself, had .copy() been left out
StoredDefaultsAliased(stored, mdp_type, mdp_params) ==
    [stored EXCEPT ![mdp_type] = mdp_params]

\* The module-level defaults after the call: update() acts on the copy
StoredDefaults(stored, mdp_type, mdp_params) == stored

MdpFileName(mdp_type) == mdp_type \o <<".", "m", "d", "p">>

\* open(file_path, "w") and f.write(mdp_content) in the working directory.
\* fault is what the environment does to the write.
NoFault == [errno |-> "none"]
WriteError(dir, file_path, fault) ==
    IF AbsPath(dir, file_path) \in dirs THEN "EISDIR"
    ELSE fault.errno

WriteFile(fs, path, text) ==
    [p \in DOMAIN fs \cup {path} |-> IF p = path THEN text ELSE fs[p]]

FilesAfterWrite(dir, file_path, text, fault) ==
    LET path == AbsPath(dir, file_path)
        err == WriteError(dir, file_path, fault)
    IN  CASE err = "none" -> WriteFile(files, path, text)
          [] err = "ENOSPC" -> WriteFile(files, path, SubSeq(text, 1, fault.written))
          [] OTHER -> files

\* except Exception as e: the failure result carrying str(e)
WriteFailure(err) ==
    [success |-> FALSE, error |-> [msg |-> "Failed to write MDP file", text |-> err]]

\* a handler that catches ValueError only lets every OSError through
WriteRaisesOSError(err) == TRUE

\* OSError is an Exception: the handler catches every error of open() and write()
WriteRaises(err) == FALSE

\* `mdp_type in MDP_TYPES`
KnownMdpType(mdp_type) == mdp_type \in MdpTypeSet

\* a check made only after <mdp_type>.mdp has been opened for writing
FilesAfterRejectedLate(mdp_type) ==
    [p \in DOMAIN files \cup {AbsPath(cwd, mdp_type \o <<".", "m", "d", "p">>)} |->
        IF p \in DOMAIN files THEN files[p] ELSE <<>>]

\* the early return of an unknown type comes before any file is opened
FilesAfterRejected(mdp_type) == files

UnknownMdpType(mdp_type) ==
    [success |-> FALSE,
     error |-> [msg |-> "Unknown MDP type", mdp_type |-> mdp_type, available |-> MDP_TYPES]]

MdpSuccess(file_path, mdp_type, mdp_params) ==
    [success |-> TRUE, file_path |-> file_path, mdp_type |-> mdp_type,
     params |-> mdp_params]

----------------------------------------------------------------------------
(* The state before a call, kept in the record of the call. *)

Before ==
    [dirs |-> dirs, files |-> files, cwd |-> cwd, protocols |-> protocols,
     defaults |-> DEFAULT_MDP_PARAMS]

NoResult == [success |-> FALSE, none |-> TRUE]

Init ==
    /\ dirs = {<<>>, <<<<"h">>>>}
    /\ files = [p \in {} |-> <<>>]
    /\ cwd = <<<<"h">>>>
    /\ protocols = <<>>
    /\ DEFAULT_MDP_PARAMS = InitialMdpParams
    /\ last = [op |-> "start", self |-> 0, args |-> None, raised |-> FALSE,
               errno |-> "none", result |-> NoResult, before |-> Before]
    /\ calls = 0

----------------------------------------------------------------------------
(* BaseProtocol.__init__ *)

\* the components of ws that do not exist, outermost first
Missing(ws) == SelectSeq(Prefixes(ws), LAMBDA p : ~Exists(p))

BlockedByFile(ws) == \E i \in 1..(Len(ws) - 1) : SubSeq(ws, 1, i) \in DOMAIN files

\* os.mkdir in place of os.makedirs: the parents are made, the leaf is not
MakeDirsParentsOnly(ws, made) == dirs \cup ({Missing(ws)[i] : i \in 1..made} \ {ws})

\* os.makedirs(ws) having created the first `made` missing components
MakeDirs(ws, made) == dirs \cup {Missing(ws)[i] : i \in 1..made}

\* a constructor that enters the workspace only when it has just created it
ChdirIfCreated(ws) == IF ws \in dirs THEN cwd ELSE ws

\* os.chdir(ws)
Chdir(ws) == ws

__init__(workspace, made) ==
    /\ Len(protocols) < MaxInstances
    /\ LET ws == AbsPath(cwd, workspace)
           missing == IF Exists(ws) THEN <<>> ELSE Missing(ws)
           made_ok == made = Len(missing)
           chdir_ok == made_ok /\ ws \notin DOMAIN files
       IN  /\ Len(ws) <= MaxDepth
           /\ made \in 0..Len(missing)
           /\ BlockedByFile(ws) => made = 0
           /\ dirs' = IF Exists(ws) THEN dirs ELSE MakeDirs(ws, made)
           /\ cwd' = IF chdir_ok THEN Chdir(ws) ELSE cwd
           /\ protocols' = IF chdir_ok
                           THEN Append(protocols, [workspace |-> ws, stage |-> SETUP])
                           ELSE protocols
           /\ last' = [op |-> "__init__", self |-> IF chdir_ok THEN Len(protocols) + 1 ELSE 0,
                       args |-> [workspace |-> workspace, abspath |-> ws],
                       raised |-> ~chdir_ok, errno |-> "none", result |-> NoResult,
                       before |-> Before]
    /\ calls' = calls + 1
    /\ UNCHANGED <<files, DEFAULT_MDP_PARAMS>>

----------------------------------------------------------------------------
(* BaseProtocol.run_shell_command: forwards to utils.shell.run_shell_command *)

ShellResult(return_code) ==
    [success |-> return_code = 0, return_code |-> return_code]

run_shell_command(self, return_code) ==
    /\ self \in DOMAIN protocols
    /\ last' = [op |-> "run_shell_command", self |-> self, args |-> None,
                raised |-> FALSE, errno |-> "none", result |-> ShellResult(return_code),
                before |-> Before]
    /\ calls' = calls + 1
    /\ UNCHANGED <<dirs, files, cwd, protocols, DEFAULT_MDP_PARAMS>>

----------------------------------------------------------------------------
(* BaseProtocol.create_mdp_file *)

create_mdp_file(self, mdp_type, params, fault) ==
    /\ self \in DOMAIN protocols
    /\ IF ~KnownMdpType(mdp_type)
       THEN /\ fault = NoFault
            /\ files' = FilesAfterRejected(mdp_type)
            /\ last' = [op |-> "create_mdp_file", self |-> self,
                        args |-> [mdp_type |-> mdp_type, params |-> params],
                        raised |-> FALSE, errno |-> "none",
                        result |-> UnknownMdpType(mdp_type), before |-> Before]
            /\ UNCHANGED DEFAULT_MDP_PARAMS
       ELSE LET mdp_params == EffectiveParams(DEFAULT_MDP_PARAMS[mdp_type], params)
                mdp_content == MdpContent(mdp_type, mdp_params)
                file_path == MdpFileName(mdp_type)
                err == WriteError(cwd, file_path, fault)
            IN  /\ fault.errno = "ENOSPC" => fault.written < Len(mdp_content)
                /\ files' = FilesAfterWrite(cwd, file_path, mdp_content, fault)
                /\ DEFAULT_MDP_PARAMS' = StoredDefaults(DEFAULT_MDP_PARAMS, mdp_type, mdp_params)
                /\ last' = [op |-> "create_mdp_file", self |-> self,
                            args |-> [mdp_type |-> mdp_type, params |-> params],
                            raised |-> err # "none" /\ WriteRaises(err), errno |-> err,
                            result |-> IF err = "none"
                                       THEN MdpSuccess(file_path, mdp_type, mdp_params)
                                       ELSE WriteFailure(err),
                            before |-> Before]
    /\ calls' = calls + 1
    /\ UNCHANGED <<dirs, cwd, protocols>>

----------------------------------------------------------------------------
(* BaseProtocol.set_simulation_stage *)

\* SimulationStage[stage] succeeds for the member names only
IsStage(stage) == stage \in StageMembers

\* a setter that validates the name and never assigns it
StageAfterIgnored(current, stage) == current

\* a setter that falls back to the first stage when the lookup fails
StageAfterReset(current, stage) == IF IsStage(stage) THEN stage ELSE SETUP

\* self.stage after the call
StageAfter(current, stage) == IF IsStage(stage) THEN stage ELSE current

\* a setter that remembers the stage it replaces
StageSuccessRemembered(previous, current) ==
    [success |-> TRUE, stage |-> current, previous_stage |-> previous]

\* the success result is built after self.stage has been assigned
StageSuccess(previous, current) ==
    [success |-> TRUE, stage |-> current, previous_stage |-> current]

UnknownStage(stage) ==
    [success |-> FALSE,
     error |-> [msg |-> "Unknown stage", stage |-> stage, available |-> SimulationStage]]

set_simulation_stage(self, stage) ==
    /\ self \in DOMAIN protocols
    /\ protocols' = [protocols EXCEPT ![self].stage = StageAfter(@, stage)]
    /\ last' = [op |-> "set_simulation_stage", self |-> self, args |-> [stage |-> stage],
                raised |-> FALSE, errno |-> "none",
                result |-> IF IsStage(stage)
                           THEN StageSuccess(protocols[self].stage,
                                             StageAfter(protocols[self].stage, stage))
                           ELSE UnknownStage(stage),
                before |-> Before]
    /\ calls' = calls + 1
    /\ UNCHANGED <<dirs, files, cwd, DEFAULT_MDP_PARAMS>>

----------------------------------------------------------------------------
(* The calls a client makes, and what the environment does to them. *)

wDefault == <<".", "/", "m", "d", "_", "w", "o", "r", "k", "s", "p", "a", "c", "e">>
wAbsolute == <<"/", "w", "/", ".", "/", "x">>
wEmMdp == <<"e", "m", ".", "m", "d", "p">>
wParent == <<".", ".">>
wBelowEmMdp == <<"e", "m", ".", "m", "d", "p", "/", "x">>
WorkspaceArgs == {wDefault, wAbsolute, wEmMdp, wParent, wBelowEmMdp}

StageArgs == StageMembers \cup {"setup", "MINIMIZATION"}

xx == <<"x", "x">>
MdpTypeArgs == MdpTypeSet \cup {xx, <<"E", "M">>}

kDt == <<"d", "t">>
kDefine == <<"d", "e", "f", "i", "n", "e">>
kVerletBufferTolerance ==
    <<"v", "e", "r", "l", "e", "t", "-", "b", "u", "f", "f", "e", "r", "-", "t", "o",
      "l", "e", "r", "a", "n", "c", "e">>
pSd == <<<<kIntegrator, PyStr(<<"s", "d">>)>>>>
pDefine == <<<<kDefine, PyStr(<<"-", "D", "P", "O", "S", "R", "E", "S">>)>>,
              <<kIntegrator, PyStr(<<"b", "d">>)>>>>
pInt == <<<<kNsteps, PyInt(5)>>>>
pInject == <<<<kDt, PyStr(<<"1", "\n", "r", "v", "d", "w", " ", "=", " ", "9">>)>>>>
pLongKey == <<<<kVerletBufferTolerance, PyStr(<<"1">>)>>>>

ParamArgs == {None} \cup {Dict(d) : d \in {<<>>, pSd, pDefine, pInt, pInject, pLongKey}}

Denied == [errno |-> "EACCES"]
DiskFull(written) == [errno |-> "ENOSPC", written |-> written]
Faults == {NoFault, Denied, DiskFull(0), DiskFull(Len(HeaderTail))}

LastIs(op) == last.op = op

\* Workspaces and the working directory: every workspace argument, few parameter files
Next ==
    \/ \E workspace \in WorkspaceArgs, made \in 0..MaxDepth :
          calls < MaxCalls /\ __init__(workspace, made)
    \/ \E self \in DOMAIN protocols :
          calls < MaxCalls /\ run_shell_command(self, 0)
    \/ \E self \in DOMAIN protocols, mdp_type \in {em, xx}, params \in {None, Dict(pSd)},
          fault \in {NoFault, Denied} :
          calls < MaxCalls /\ create_mdp_file(self, mdp_type, params, fault)
    \/ \E self \in DOMAIN protocols, stage \in {"PRODUCTION", "setup"} :
          calls < MaxCalls /\ set_simulation_stage(self, stage)

Spec == Init /\ [][Next]_vars

\* Stages: every stage argument on every instance
NextStage ==
    \/ \E workspace \in {wDefault, wAbsolute} :
          calls < MaxCalls
              /\ __init__(workspace, Len(Missing(AbsPath(cwd, workspace))))
    \/ \E self \in DOMAIN protocols, return_code \in {0, 1} :
          calls < MaxCalls /\ run_shell_command(self, return_code)
    \/ \E self \in DOMAIN protocols :
          calls < MaxCalls /\ create_mdp_file(self, em, Dict(pSd), NoFault)
    \/ \E self \in DOMAIN protocols, stage \in StageArgs :
          calls < MaxCalls /\ set_simulation_stage(self, stage)

SpecStage == Init /\ [][NextStage]_vars

\* Parameter files: every category, every override mapping and every fault, on the
\* instance that BaseProtocol() leaves behind
InitMdp ==
    /\ dirs = {<<>>, <<<<"h">>>>, AbsPath(<<<<"h">>>>, wDefault)}
    /\ files = [p \in {} |-> <<>>]
    /\ cwd = AbsPath(<<<<"h">>>>, wDefault)
    /\ protocols = <<[workspace |-> AbsPath(<<<<"h">>>>, wDefault), stage |-> SETUP]>>
    /\ DEFAULT_MDP_PARAMS = InitialMdpParams
    /\ last = [op |-> "__init__", self |-> 1,
               args |-> [workspace |-> wDefault, abspath |-> AbsPath(<<<<"h">>>>, wDefault)],
               raised |-> FALSE, errno |-> "none", result |-> NoResult,
               before |-> [dirs |-> {<<>>, <<<<"h">>>>}, files |-> [p \in {} |-> <<>>],
                           cwd |-> <<<<"h">>>>, protocols |-> <<>>,
                           defaults |-> InitialMdpParams]]
    /\ calls = 1

NextMdp ==
    \/ \E self \in DOMAIN protocols :
          calls < MaxMdpCalls /\ run_shell_command(self, 1)
    \/ \E self \in DOMAIN protocols, mdp_type \in MdpTypeArgs, params \in ParamArgs,
          fault \in Faults :
          calls < MaxMdpCalls /\ create_mdp_file(self, mdp_type, params, fault)
    \/ \E self \in DOMAIN protocols, stage \in {"PRODUCTION", "setup"} :
          calls < MaxMdpCalls /\ set_simulation_stage(self, stage)

SpecMdp == InitMdp /\ [][NextMdp]_vars

\* the state SpecMdp starts in is the one __init__(wDefault) leaves after Init
InitMdpIsConstructed ==
    (calls = 1 /\ LastIs("__init__") /\ ~last.raised /\ last.args.workspace = wDefault) =>
        /\ cwd = AbsPath(<<<<"h">>>>, wDefault)
        /\ dirs = {<<>>, <<<<"h">>>>, cwd}
        /\ files = <<>>
        /\ protocols = <<[workspace |-> cwd, stage |-> SETUP]>>
        /\ DEFAULT_MDP_PARAMS = InitialMdpParams
        /\ last.before = [dirs |-> {<<>>, <<<<"h">>>>}, files |-> <<>>, cwd |-> <<<<"h">>>>,
                          protocols |-> <<>>, defaults |-> InitialMdpParams]

----------------------------------------------------------------------------
(* Claims about set_simulation_stage, checked under SpecStage. *)

Available(error) == {error.available[i] : i \in DOMAIN error.available}

\* C1: set_simulation_stage with a name that is no member of SimulationStage returns
\* success = False with an error listing every member name, and leaves the stage of
\* every instance as it was before the call.
C1_InvalidStageRejected ==
    (LastIs("set_simulation_stage") /\ last.args.stage \notin StageMembers) =>
        /\ ~last.raised
        /\ last.result.success = FALSE
        /\ "error" \in DOMAIN last.result
        /\ last.result.error.stage = last.args.stage
        /\ Available(last.result.error) = StageMembers
        /\ protocols = last.before.protocols

\* an invalid name arrives when the stage is no longer the initial one
C1_Witness ==
    /\ LastIs("set_simulation_stage")
    /\ last.args.stage \notin StageMembers
    /\ last.before.protocols[last.self].stage = "PRODUCTION"

\* C2: set_simulation_stage with a member name returns success with that name in
\* "stage" and makes it the instance's stage; a new instance starts in SETUP; no other
\* operation changes any instance's stage.
C2_StageSetOnlyBySetter ==
    /\ (LastIs("set_simulation_stage") /\ last.args.stage \in StageMembers) =>
           /\ last.result.success
           /\ last.result.stage = last.args.stage
           /\ protocols[last.self].stage = last.args.stage
           /\ \A i \in DOMAIN protocols \ {last.self} :
                  protocols[i] = last.before.protocols[i]
    /\ (LastIs("__init__") /\ ~last.raised) =>
           /\ protocols[last.self].stage = SETUP
           /\ \A i \in DOMAIN last.before.protocols :
                  protocols[i] = last.before.protocols[i]
    /\ (LastIs("create_mdp_file") \/ LastIs("run_shell_command")
            \/ (LastIs("__init__") /\ last.raised)) =>
           protocols = last.before.protocols

\* a member name is set on an instance whose stage was another one
C2_Witness ==
    /\ LastIs("set_simulation_stage")
    /\ last.args.stage \in StageMembers
    /\ last.before.protocols[last.self].stage \notin {SETUP, last.args.stage}
    /\ Len(protocols) = 2

\* C10: in every success result of set_simulation_stage, "previous_stage" is the
\* newly set stage, equal to "stage", whatever the stage was before the call.
C10_PreviousStageEchoesNew ==
    (LastIs("set_simulation_stage") /\ last.result.success) =>
        /\ last.result.previous_stage = last.result.stage
        /\ last.result.previous_stage = protocols[last.self].stage

\* a success whose "previous_stage" differs from the stage before the call
C10_Witness ==
    /\ LastIs("set_simulation_stage")
    /\ last.result.success
    /\ last.result.previous_stage # last.before.protocols[last.self].stage

----------------------------------------------------------------------------
(* Claims about create_mdp_file, checked under SpecMdp. *)

MdpSucceeded == LastIs("create_mdp_file") /\ last.result.success
\* the file the last create_mdp_file call opened
LastTarget == Append(last.before.cwd, last.args.mdp_type \o <<".", "m", "d", "p">>)
Overrides == IF last.args.params.none THEN <<>> ELSE last.args.params.items

\* C3: create_mdp_file with a category outside MDP_TYPES returns success = False with
\* an error naming the category and listing the valid ones, and changes no file and
\* no directory.
C3_UnknownTypeRejected ==
    (LastIs("create_mdp_file") /\ last.args.mdp_type \notin MdpTypeSet) =>
        /\ ~last.raised
        /\ last.result.success = FALSE
        /\ last.result.error.mdp_type = last.args.mdp_type
        /\ Available(last.result.error) = MdpTypeSet
        /\ files = last.before.files
        /\ dirs = last.before.dirs

\* an unknown category arrives when the directory already holds a parameter file
C3_Witness ==
    /\ LastIs("create_mdp_file")
    /\ last.args.mdp_type = xx
    /\ last.before.files # <<>>

\* C4: the mapping create_mdp_file returns and writes is the category's defaults with
\* the overrides applied key by key: an override's value for each override key, the
\* default's value for every other key, and no key besides these.
C4_OverridesWinKeyByKey ==
    MdpSucceeded =>
        LET defaults == last.before.defaults[last.args.mdp_type]
            effective == last.result.params
        IN  /\ DictKeys(effective) = DictKeys(defaults) \cup DictKeys(Overrides)
            /\ Len(effective) = Cardinality(DictKeys(effective))
            /\ \A k \in DictKeys(Overrides) : DictGet(effective, k) = DictGet(Overrides, k)
            /\ \A k \in DictKeys(defaults) \ DictKeys(Overrides) :
                   DictGet(effective, k) = DictGet(defaults, k)
            /\ files[LastTarget] = MdpContent(last.args.mdp_type, effective)

\* one call overrides a default key and adds a key the defaults lack
C4_Witness ==
    /\ MdpSucceeded
    /\ last.args.params = Dict(pDefine)
    /\ kIntegrator \in DictKeys(last.before.defaults[last.args.mdp_type])
    /\ kDefine \notin DictKeys(last.before.defaults[last.args.mdp_type])

Max(a, b) == IF a >= b THEN a ELSE b

\* line is key, blanks up to column 20, " = ", then the value's text
IsParameterLine(line, key, text) ==
    LET w == Max(Len(key), 20)
    IN  /\ Len(line) = w + 3 + Len(text)
        /\ SubSeq(line, 1, Len(key)) = key
        /\ \A j \in (Len(key) + 1)..w : line[j] = " "
        /\ SubSeq(line, w + 1, w + 3) = <<" ", "=", " ">>
        /\ SubSeq(line, w + 4, Len(line)) = text

\* C5: create_mdp_file without overrides (None or an empty dict) writes, after the
\* comment line, one line per default key of the category and nothing else, each line
\* the key padded to width 20, " = " and the value; the defaults are those of the
\* configuration however many calls with overrides came before.
C5_DefaultsFileExact ==
    (MdpSucceeded /\ Overrides = <<>>) =>
        LET defaults == InitialMdpParams[last.args.mdp_type]
            lines == SplitOn(files[LastTarget], "\n")
        IN  /\ Len(lines) = Len(defaults) + 2
            /\ lines[Len(lines)] = <<>>
            /\ \A i \in DOMAIN defaults :
                   IsParameterLine(lines[i + 1], defaults[i][1], Str(defaults[i][2]))
            /\ DEFAULT_MDP_PARAMS = InitialMdpParams

\* the defaults are written over a file the same category wrote with overrides
C5_Witness ==
    /\ MdpSucceeded
    /\ last.args.params = None
    /\ LastTarget \in DOMAIN last.before.files
    /\ last.before.files[LastTarget] # files[LastTarget]
    /\ Len(last.before.files[LastTarget]) > Len(files[LastTarget])

----------------------------------------------------------------------------
(* Reading a parameter file back as key/value pairs. *)

RECURSIVE LStrip(_)
LStrip(s) == IF s # <<>> /\ s[1] = " " THEN LStrip(Tail(s)) ELSE s

RECURSIVE RStrip(_)
RStrip(s) == IF s # <<>> /\ s[Len(s)] = " " THEN RStrip(SubSeq(s, 1, Len(s) - 1)) ELSE s

Strip(s) == LStrip(RStrip(s))

IsComment(line) == Strip(line) = <<>> \/ Strip(line)[1] = ";"
HasAssign(line) == \E i \in DOMAIN line : line[i] = "="
FirstAssign(line) == CHOOSE i \in DOMAIN line : line[i] = "=" /\ \A j \in 1..(i - 1) : line[j] # "="

RECURSIVE ReadLines(_, _)
\* key = value, one per line; blank lines and ";" comments are skipped
ReadLines(pairs, lines) ==
    IF lines = <<>> THEN pairs
    ELSE LET line == Head(lines)
         IN  IF IsComment(line) \/ ~HasAssign(line) THEN ReadLines(pairs, Tail(lines))
             ELSE ReadLines(DictSet(pairs, Strip(SubSeq(line, 1, FirstAssign(line) - 1)),
                                    Strip(SubSeq(line, FirstAssign(line) + 1, Len(line)))),
                            Tail(lines))

ReadMdp(text) == ReadLines(<<>>, SplitOn(text, "\n"))

\* C6: after a successful create_mdp_file, reading the file back as key/value pairs
\* gives the keys of the returned "params" and, for every key, the text of its value.
C6_RoundTrip ==
    MdpSucceeded =>
        LET read == ReadMdp(files[LastTarget])
            effective == last.result.params
        IN  /\ DictKeys(read) = DictKeys(effective)
            /\ \A k \in DictKeys(effective) : DictGet(read, k) = Str(DictGet(effective, k))

\* C7: a failed write makes create_mdp_file return success = False with the error's
\* text and raise nothing; every failure of create_mdp_file and of
\* set_simulation_stage is a result with success = False and an "error", never an
\* exception.
C7_FailuresAreResults ==
    /\ (LastIs("create_mdp_file") /\ last.errno # "none") =>
           /\ ~last.raised
           /\ last.result.success = FALSE
           /\ last.result.error.text = last.errno
    /\ (LastIs("create_mdp_file") \/ LastIs("set_simulation_stage")) =>
           /\ ~last.raised
           /\ last.result.success \in BOOLEAN
           /\ ~last.result.success => "error" \in DOMAIN last.result

\* the write of a known category fails for want of permission
C7_Witness ==
    /\ LastIs("create_mdp_file")
    /\ last.args.mdp_type \in MdpTypeSet
    /\ last.errno = "EACCES"
    /\ files = last.before.files

----------------------------------------------------------------------------
(* Claims about the workspace and the working directory, checked under Spec. *)

Constructed == LastIs("__init__") /\ ~last.raised
ExistedBefore(p) == p \in last.before.dirs \/ p \in DOMAIN last.before.files
IsNormal(p) == \A i \in DOMAIN p : p[i] \notin {<<>>, Dot, DotDot} /\ "/" \notin {p[i][j] : j \in DOMAIN p[i]}

\* C8: a construction with a workspace path that did not exist leaves that directory
\* existing, the instance's workspace holding the absolute path (the argument taken
\* from the working directory of the moment unless it starts at the root) and the
\* working directory equal to it; a construction with a path that existed changes no
\* file and no directory.
C8_WorkspaceCreated ==
    /\ Constructed =>
           LET ws == protocols[last.self].workspace
               arg == last.args.workspace
           IN  /\ ws \in dirs
               /\ cwd = ws
               /\ IsNormal(ws)
               /\ arg = wDefault => ws = Append(last.before.cwd, SubSeq(arg, 3, Len(arg)))
               /\ arg = wAbsolute => ws = <<<<"w">>, <<"x">>>>
               /\ arg = wEmMdp => ws = Append(last.before.cwd, arg)
               /\ arg = wBelowEmMdp => ws = last.before.cwd \o <<wEmMdp, <<"x">>>>
               /\ arg = wParent /\ last.before.cwd # <<>> =>
                      Append(ws, last.before.cwd[Len(last.before.cwd)]) = last.before.cwd
               /\ last.before.dirs \subseteq dirs
               /\ files = last.before.files
    /\ (LastIs("__init__") /\ ExistedBefore(last.args.abspath)) =>
           /\ dirs = last.before.dirs
           /\ files = last.before.files

\* a second construction creates its workspace together with the missing parent
C8_Witness ==
    /\ Constructed
    /\ Len(protocols) = 2
    /\ LET ws == protocols[last.self].workspace
       IN  /\ ~ExistedBefore(ws)
           /\ ~ExistedBefore(SubSeq(ws, 1, Len(ws) - 1))
           /\ last.before.cwd # <<<<"h">>>>

Newest == protocols[Len(protocols)]

\* C9: once an instance exists, the working directory is the workspace of the most
\* recently constructed one after every call, so a successful create_mdp_file on any
\* instance writes <category>.mdp into that workspace; no call brings an earlier
\* working directory back other than a construction naming it.
C9_CwdIsNewestWorkspace ==
    /\ protocols # <<>> => cwd = Newest.workspace
    /\ MdpSucceeded =>
           /\ LastTarget = Append(Newest.workspace, last.args.mdp_type \o <<".", "m", "d", "p">>)
           /\ LastTarget \in DOMAIN files
           /\ \A p \in DOMAIN files : p # LastTarget =>
                  p \in DOMAIN last.before.files /\ files[p] = last.before.files[p]
    /\ ~LastIs("__init__") => cwd = last.before.cwd

\* create_mdp_file on the older of two instances writes into the newer one's workspace
C9_Witness ==
    /\ MdpSucceeded
    /\ Len(protocols) = 2
    /\ last.self = 1
    /\ protocols[1].workspace # protocols[2].workspace
    /\ LastTarget \notin {Append(protocols[1].workspace, last.args.mdp_type \o <<".", "m", "d", "p">>)}
    /\ \A p \in DOMAIN files : SubSeq(p, 1, Len(p) - 1) = protocols[2].workspace

====
